---- MODULE Spec2Model ----
(***************************************************************************)
(* Order Service (src/order-service/main.py) and Product Service           *)
(* (src/product-service/main.py) as one state machine.                     *)
(*                                                                         *)
(* Each service is a single asyncio event loop: a handler runs without     *)
(* interruption between two awaits.  create_order awaits once per item     *)
(* (the remote lookup) and once more when it leaves the httpx client       *)
(* context, so it is split at those points; every other handler has no     *)
(* await and is one action.  The coroutines have no identity of their own: *)
(* the requests in progress and answered are a bag of coroutine states.    *)
(*                                                                         *)
(* Money is a Python float in the source.  Here an amount is an integer    *)
(* number of mills (1/1000 of a currency unit).  The prices the model      *)
(* feeds in are even numbers of mills, so no accumulated total lies        *)
(* half-way between two cents and round(total, 2) is the nearest cent.     *)
(***************************************************************************)
EXTENDS Integers, Sequences, FiniteSets, Bags, TLC

VARIABLES
    products_db,    \* product-service: id string -> product dict
    orders_db,      \* order-service: id string -> order dict
    order_counter,  \* order-service: next order number
    calls           \* order-service: the create_order coroutines, a bag

vars == <<products_db, orders_db, order_counter, calls>>

----------------------------------------------------------------------------
(* Bounds of the model *)

MaxCalls == 2        \* create_order requests over the run
MaxItems == 2        \* items submitted over the run, in all requests together
MaxProducts == 4     \* products the catalog grows to

----------------------------------------------------------------------------
(* Values *)

Mills(units, cents) == units * 1000 + cents * 10

\* str(n) for n >= 0, as Python prints an int
Digit(d) ==
    CASE d = 0 -> "0" [] d = 1 -> "1" [] d = 2 -> "2" [] d = 3 -> "3"
      [] d = 4 -> "4" [] d = 5 -> "5" [] d = 6 -> "6" [] d = 7 -> "7"
      [] d = 8 -> "8" [] d = 9 -> "9"

RECURSIVE str(_)
str(n) == IF n < 10 THEN Digit(n) ELSE str(n \div 10) \o Digit(n % 10)

\* round(x, 2): the nearest cent, a tie going to the even cent
round2(x) ==
    LET q == x \div 10
        r == x % 10
    IN  IF r < 5 THEN q * 10
        ELSE IF r > 5 THEN (q + 1) * 10
        ELSE IF q % 2 = 0 THEN q * 10 ELSE (q + 1) * 10

\* request inputs
ProductIdArgs == {"1", "999"}
QuantityArgs == {3, -1}
CustomerArgs == {"alice"}
PriceArgs == {126}
NameArgs == {"Widget"}
CategoryArgs == {"Misc"}
StatusArgs == {"pending", "confirmed", "shipped", "delivered", "canceled",
               "cancelled", ""}
OrderIdArgs == {"1", "7"}
\* what datetime.utcnow().isoformat() returns
NowArgs == {"2026-01-01T00:00:00"}
\* statuses other than 200 and 404 that a lookup can be answered with
OtherStatusArgs == {500}

OrderItemArgs == [product_id : ProductIdArgs, quantity : QuantityArgs]

SeqsUpTo(S, n) == UNION {[1..k -> S] : k \in 0..n}

NoMsg == [kind |-> "none"]

----------------------------------------------------------------------------
(* Initial state *)

InitProducts ==
    ("1" :> [id |-> "1", name |-> "Laptop", price |-> Mills(999, 99),
             category |-> "Electronics"])
 @@ ("2" :> [id |-> "2", name |-> "Mouse", price |-> Mills(29, 99),
             category |-> "Electronics"])
 @@ ("3" :> [id |-> "3", name |-> "Keyboard", price |-> Mills(79, 99),
             category |-> "Electronics"])

Init ==
    /\ products_db = InitProducts
    /\ orders_db = <<>>
    /\ order_counter = 1
    /\ calls = EmptyBag

----------------------------------------------------------------------------
(* Product Service *)

\* get_product answering with a stand-in record for an absent product
get_product_stands_in(product_id) ==
    IF product_id \notin DOMAIN products_db
    THEN [kind |-> "response", status_code |-> 200,
          json |-> [id |-> "0", name |-> "", price |-> 0, category |-> ""]]
    ELSE [kind |-> "response", status_code |-> 200, json |-> products_db[product_id]]

\* GET /products/{product_id}
get_product(product_id) ==
    IF product_id \notin DOMAIN products_db
    THEN [kind |-> "response", status_code |-> 404, detail |-> "Product not found"]
    ELSE [kind |-> "response", status_code |-> 200, json |-> products_db[product_id]]

\* an optional query parameter: None when the request omits it
None == [present |-> FALSE]
Some(v) == [present |-> TRUE, value |-> v]
\* the truth value of an Optional[str] in an if statement
Truthy(s) == s.present /\ s.value # ""

\* GET /products[?category=]
get_products(category) ==
    LET products == {products_db[k] : k \in DOMAIN products_db}
    IN  IF Truthy(category)
        THEN {p \in products : p.category = category.value}
        ELSE products

\* the id counted from the size alone
NewProductIdFromSize == str(Cardinality(DOMAIN products_db))

\* the id POST /products assigns
NewProductId == str(Cardinality(DOMAIN products_db) + 1)

\* d = {k: v}: the dict is replaced instead of updated
DictSetReplaces(d, k, v) == [x \in {k} |-> v]

\* d[k] = v on a Python dict
DictSet(d, k, v) == [x \in DOMAIN d \cup {k} |-> IF x = k THEN v ELSE d[x]]
\* d.clear()
DictDelClears(d, k) == [x \in {} |-> d[x]]
\* del d[k]
DictDel(d, k) == [x \in DOMAIN d \ {k} |-> d[x]]

\* POST /products: the response, and the handler
create_product_response(name, price, category) ==
    [code |-> 201,
     body |-> [id |-> NewProductId, name |-> name, price |-> price,
               category |-> category]]

create_product(name, price, category) ==
    LET new_product == create_product_response(name, price, category).body
    IN  /\ products_db' = DictSet(products_db, new_product.id, new_product)
        /\ UNCHANGED <<orders_db, order_counter, calls>>

\* PUT /products/{product_id}: the response, and the handler
update_product_response(product_id, name, price, category) ==
    IF product_id \notin DOMAIN products_db
    THEN [code |-> 404, detail |-> "Product not found"]
    ELSE [code |-> 200,
          body |-> [id |-> product_id, name |-> name, price |-> price,
                    category |-> category]]

update_product(product_id, name, price, category) ==
    LET r == update_product_response(product_id, name, price, category)
    IN  /\ products_db' = IF r.code = 200
                          THEN DictSet(products_db, product_id, r.body)
                          ELSE products_db
        /\ UNCHANGED <<orders_db, order_counter, calls>>

\* DELETE /products/{product_id}: the response, and the handler
delete_product_response(product_id) ==
    IF product_id \notin DOMAIN products_db
    THEN [code |-> 404, detail |-> "Product not found"]
    ELSE [code |-> 200, message |-> "Product deleted successfully"]

delete_product(product_id) ==
    LET r == delete_product_response(product_id)
    IN  /\ products_db' = IF r.code = 200
                          THEN DictDel(products_db, product_id)
                          ELSE products_db
        /\ UNCHANGED <<orders_db, order_counter, calls>>

----------------------------------------------------------------------------
(* Order Service: create_order *)

\* total = product["price"] * item.quantity: the accumulator is overwritten
AccumulateOverwrites(total, price, quantity) == price * quantity

\* total += product["price"] * item.quantity
Accumulate(total, price, quantity) == total + price * quantity

\* the increment is left out
NextCounterStuck(counter) == counter

\* order_counter += 2
NextCounterSkips(counter) == counter + 2

\* order_counter += 1
NextCounter(counter) == counter + 1

\* what client.get(f"{PRODUCT_SERVICE_URL}/products/{item.product_id}",
\* timeout=5.0) can come back with: the Product Service's answer, another
\* status, or an httpx.RequestError (no connection, no answer in time)
OtherReply(status_code) == [kind |-> "response", status_code |-> status_code]
ErrorReply(text) == [kind |-> "error", text |-> text]

\* the 404 detail does not name the product
LookupFailureNamesNoProduct(item, reply) ==
    IF reply.kind = "error"
    THEN [code |-> 503, detail |-> "Product Service unavailable: " \o reply.text]
    ELSE IF reply.status_code = 404
    THEN [code |-> 404, detail |-> "Product not found"]
    ELSE [code |-> reply.status_code,
          detail |-> "Error fetching product " \o item.product_id]

\* every failed lookup is reported as 503
LookupFailureAlways503(item, reply) ==
    [code |-> 503, detail |-> "Product Service unavailable: " \o item.product_id]

\* the HTTPException a lookup that is not a 200 response is turned into
LookupFailure(item, reply) ==
    IF reply.kind = "error"
    THEN [code |-> 503, detail |-> "Product Service unavailable: " \o reply.text]
    ELSE IF reply.status_code = 404
    THEN [code |-> 404, detail |-> "Product " \o item.product_id \o " not found"]
    ELSE [code |-> reply.status_code,
          detail |-> "Error fetching product " \o item.product_id]

\* a request without items answered at once, without an order
LoopHeadRejectsEmpty(items, k) ==
    IF Len(items) = 0 THEN "done" ELSE IF k < Len(items) THEN "await" ELSE "create"

\* for item in order.items: with k items done, the next lookup is awaited,
\* or the loop is over and Step 3 follows the exit of the client context
LoopHead(items, k) == IF k < Len(items) THEN "await" ELSE "create"

\* one coroutine more, one coroutine less, one coroutine moved on
Put(b, r) == b (+) SetToBag({r})
Take(b, r) == b (-) SetToBag({r})
Move(b, r, q) == Put(Take(b, r), q)
Running == BagToSet(calls)

\* POST /orders arrives: the handler runs up to its first await
create_order_begin(customer_id, items) ==
    /\ calls' = Put(calls, [pc |-> LoopHead(items, 0),
                            customer_id |-> customer_id,
                            items |-> items,
                            idx |-> 0, total |-> 0, log |-> <<>>,
                            response |-> NoMsg])
    /\ UNCHANGED <<products_db, orders_db, order_counter>>

\* the loop going on to the next item after a lookup that failed
create_order_resume_goes_on(r, reply) ==
    LET k == r.idx + 1
        log == Append(r.log, reply)
    IN  /\ r \in Running
        /\ r.pc = "await"
        /\ calls' = Move(calls, r,
                         [r EXCEPT !.pc = LoopHead(r.items, k), !.idx = k,
                                   !.log = log])
        /\ UNCHANGED <<products_db, orders_db, order_counter>>

\* the awaited lookup of coroutine r comes back with reply: the rest of the
\* loop body, and the loop head again
\* (log, the replies so far, is kept for the properties only)
create_order_resume(r, reply) ==
    LET item == r.items[r.idx + 1]
        log == Append(r.log, reply)
    IN  /\ r \in Running
        /\ r.pc = "await"
        /\ IF reply.kind = "response" /\ reply.status_code = 200
           THEN LET k == r.idx + 1
                    total == Accumulate(r.total, reply.json.price, item.quantity)
                IN  calls' = Move(calls, r,
                                  [r EXCEPT !.pc = LoopHead(r.items, k), !.idx = k,
                                            !.total = total, !.log = log])
           ELSE calls' = Move(calls, r,
                              [r EXCEPT !.pc = "done", !.log = log,
                                        !.response = LookupFailure(item, reply)])
        /\ UNCHANGED <<products_db, orders_db, order_counter>>

\* Step 3 without orders_db[order_id] = new_order.dict()
create_order_finish_not_stored(r, now) ==
    LET order_id == str(order_counter)
        new_order == [id |-> order_id,
                      customer_id |-> r.customer_id,
                      items |-> r.items,
                      total |-> round2(r.total),
                      status |-> "pending",
                      created_at |-> now]
    IN  /\ r \in Running
        /\ r.pc = "create"
        /\ order_counter' = NextCounter(order_counter)
        /\ calls' = Move(calls, r,
                         [r EXCEPT !.pc = "done",
                                   !.response = [code |-> 201, body |-> new_order]])
        /\ UNCHANGED <<products_db, orders_db>>

\* Step 3, after the client context is left
create_order_finish(r, now) ==
    LET order_id == str(order_counter)
        new_order == [id |-> order_id,
                      customer_id |-> r.customer_id,
                      items |-> r.items,
                      total |-> round2(r.total),
                      status |-> "pending",
                      created_at |-> now]
    IN  /\ r \in Running
        /\ r.pc = "create"
        /\ order_counter' = NextCounter(order_counter)
        /\ orders_db' = DictSet(orders_db, order_id, new_order)
        /\ calls' = Move(calls, r,
                         [r EXCEPT !.pc = "done",
                                   !.response = [code |-> 201, body |-> new_order]])
        /\ UNCHANGED products_db

----------------------------------------------------------------------------
(* Order Service: the handlers without an await *)

\* GET /orders/{order_id}
get_order(order_id) ==
    IF order_id \notin DOMAIN orders_db
    THEN [code |-> 404, detail |-> "Order not found"]
    ELSE [code |-> 200, body |-> orders_db[order_id]]

\* GET /orders[?customer_id=]
get_orders(customer_id) ==
    LET orders == {orders_db[k] : k \in DOMAIN orders_db}
    IN  IF Truthy(customer_id)
        THEN {o \in orders : o.customer_id = customer_id.value}
        ELSE orders

\* the list also holds the other spelling of canceled
valid_statuses_both_spellings ==
    {"pending", "confirmed", "shipped", "delivered", "canceled", "cancelled"}

\* the empty status let through
valid_statuses_with_empty ==
    {"pending", "confirmed", "shipped", "delivered", "canceled", ""}

valid_statuses == {"pending", "confirmed", "shipped", "delivered", "canceled"}

\* the status checked before the order is looked for
update_order_status_response_status_first(order_id, status) ==
    IF status \notin valid_statuses
    THEN [code |-> 400, detail |-> "Invalid status. Must be one of valid_statuses"]
    ELSE IF order_id \notin DOMAIN orders_db
    THEN [code |-> 404, detail |-> "Order not found"]
    ELSE [code |-> 200,
          message |-> "Order " \o order_id \o " status updated to " \o status]

\* PATCH /orders/{order_id}/status?status=: the response, and the handler
update_order_status_response(order_id, status) ==
    IF order_id \notin DOMAIN orders_db
    THEN [code |-> 404, detail |-> "Order not found"]
    ELSE IF status \notin valid_statuses
    THEN [code |-> 400, detail |-> "Invalid status. Must be one of valid_statuses"]
    ELSE [code |-> 200,
          message |-> "Order " \o order_id \o " status updated to " \o status]

\* the update also stamps the order
SetStatusStamps(order, status) ==
    [order EXCEPT !.status = status, !.created_at = "updated"]

\* delivered and canceled orders keep their status
SetStatusUnlessFinal(order, status) ==
    IF order.status \in {"delivered", "canceled"} THEN order
    ELSE [order EXCEPT !.status = status]

\* orders_db[order_id]["status"] = status
SetStatus(order, status) == [order EXCEPT !.status = status]

update_order_status(order_id, status) ==
    LET r == update_order_status_response(order_id, status)
    IN  /\ orders_db' = IF r.code = 200
                        THEN DictSet(orders_db, order_id,
                                     SetStatus(orders_db[order_id], status))
                        ELSE orders_db
        /\ UNCHANGED <<products_db, order_counter, calls>>

----------------------------------------------------------------------------
(* The system *)

\* the lookup coroutine r awaits comes back: answered by the Product Service
\* from the catalog as it is now, answered with another status, or failed
lookup_served(r) ==
    /\ r \in Running
    /\ r.pc = "await"
    /\ create_order_resume(r, get_product(r.items[r.idx + 1].product_id))
lookup_other(r) == \E s \in OtherStatusArgs : create_order_resume(r, OtherReply(s))
lookup_error(r) == create_order_resume(r, ErrorReply("timed out"))
finish(r) == \E now \in NowArgs : create_order_finish(r, now)

\* items submitted so far by the coroutines of S
RECURSIVE Submitted(_)
Submitted(S) ==
    IF S = {} THEN 0
    ELSE LET r == CHOOSE x \in S : TRUE
         IN  calls[r] * Len(r.items) + Submitted(S \ {r})

CreateOrderBegin ==
    /\ BagCardinality(calls) < MaxCalls
    /\ \E customer_id \in CustomerArgs,
          items \in SeqsUpTo(OrderItemArgs, MaxItems - Submitted(Running)) :
           create_order_begin(customer_id, items)
LookupServed == \E r \in Running : lookup_served(r)
LookupOther == \E r \in Running : lookup_other(r)
LookupError == \E r \in Running : lookup_error(r)
CreateOrderFinish == \E r \in Running : finish(r)
UpdateOrderStatus ==
    \E order_id \in OrderIdArgs, status \in StatusArgs :
        update_order_status(order_id, status)
CreateProduct ==
    /\ Cardinality(DOMAIN products_db) < MaxProducts
    /\ \E name \in NameArgs, price \in PriceArgs, category \in CategoryArgs :
        create_product(name, price, category)
UpdateProduct ==
    \E product_id \in ProductIdArgs, name \in NameArgs, price \in PriceArgs,
       category \in CategoryArgs :
        update_product(product_id, name, price, category)
DeleteProduct == \E product_id \in ProductIdArgs : delete_product(product_id)

Next ==
    \/ CreateOrderBegin
    \/ LookupServed
    \/ LookupOther
    \/ LookupError
    \/ CreateOrderFinish
    \/ UpdateOrderStatus
    \/ CreateProduct
    \/ UpdateProduct
    \/ DeleteProduct

Spec == Init /\ [][Next]_vars

\* The requests of the worked example, on a catalog that is empty (the three
\* seeded products deleted) and an Order Store that no order was created in:
\* products are created at the example's price, and orders are requested once
\* the catalog holds a product.
ExampleInit ==
    /\ products_db = <<>>
    /\ orders_db = <<>>
    /\ order_counter = 1
    /\ calls = EmptyBag
ExampleCreateProduct ==
    /\ Cardinality(DOMAIN products_db) < MaxProducts
    /\ \E name \in NameArgs, category \in CategoryArgs :
           create_product(name, Mills(9, 99), category)
ExampleCreateOrderBegin ==
    /\ DOMAIN products_db # {}
    /\ CreateOrderBegin

ExampleNext ==
    \/ ExampleCreateProduct
    \/ ExampleCreateOrderBegin
    \/ LookupServed
    \/ LookupOther
    \/ LookupError
    \/ CreateOrderFinish

ExampleSpec == ExampleInit /\ [][ExampleNext]_vars

\* Every awaited lookup returns or times out, and the event loop resumes a
\* coroutine that can run: while a coroutine can take a step, one does.
CallStep == LookupServed \/ LookupOther \/ LookupError \/ CreateOrderFinish
Fairness == WF_vars(CallStep)

FairSpec == Spec /\ Fairness

----------------------------------------------------------------------------
(* Properties *)

Done(c) == c.pc = "done"
\* coroutine state c is reached in this step by a coroutine that ends
Ends(c) == Done(c) /\ CopiesIn(c, calls') > CopiesIn(c, calls)
\* the response of a finished call is the created order, or a failure
IsOrder(r) == "body" \in DOMAIN r
IsFailure(r) == "detail" \in DOMAIN r
Found(reply) == reply.kind = "response" /\ reply.status_code = 200

\* sum of price reported x quantity over the first n items of a call
RECURSIVE PricedSum(_, _, _)
PricedSum(items, log, n) ==
    IF n = 0 THEN 0
    ELSE PricedSum(items, log, n - 1) + log[n].json.price * items[n].quantity

\* C1: the total of every created order, as returned and as stored, is the sum
\* over its items of (the price the Product Service reported at that item's
\* lookup x the quantity), rounded to 2 decimal places.
C1_TotalIsRoundedSum ==
    \A c \in Running :
        (Done(c) /\ IsOrder(c.response)) =>
            LET r == c.response.body
                n == Len(c.items)
            IN  /\ Len(c.log) = n
                /\ \A k \in 1..n : Found(c.log[k])
                /\ r.total = round2(PricedSum(c.items, c.log, n))
                /\ r.id \in DOMAIN orders_db
                /\ orders_db[r.id].total = r.total

\* an order of two items of one product whose price changed between the two
\* lookups, with a total that rounding changed
C1_Witness ==
    \E c \in Running :
        /\ Done(c) /\ IsOrder(c.response)
        /\ Len(c.items) = 2
        /\ c.items[1].product_id = c.items[2].product_id
        /\ c.log[1].json.price # c.log[2].json.price
        /\ c.response.body.total # c.total

\* C2: a step of a create_order call that is not its successful end leaves the
\* Order Store (orders and counter) as it is, whatever the item at which the
\* call fails; the successful end adds exactly one order and changes none.
C2_StoreChangesOnlyOnSuccess ==
    [][calls' # calls =>
            IF \E c \in BagToSet(calls') : Ends(c) /\ IsOrder(c.response)
            THEN /\ Cardinality(DOMAIN orders_db') = Cardinality(DOMAIN orders_db) + 1
                 /\ \A k \in DOMAIN orders_db :
                        k \in DOMAIN orders_db' /\ orders_db'[k] = orders_db[k]
            ELSE UNCHANGED <<orders_db, order_counter>>]_vars

\* a call failed at its second item and another succeeded, with one order stored
C2_Witness ==
    \E c, d \in Running :
        /\ Done(c) /\ IsFailure(c.response) /\ Len(c.log) = 2
        /\ Done(d) /\ IsOrder(d.response)
        /\ Cardinality(DOMAIN orders_db) = 1

\* product ids of requests that the catalog never holds
MissingIds == {p \in ProductIdArgs : \A n \in 1..MaxProducts : p # str(n)}
NotFoundDetail(product_id) == "Product " \o product_id \o " not found"
OrdersCreated == {c \in Running : Done(c) /\ IsOrder(c.response)}

\* C3, as stated: a finished create_order call with an item whose product is
\* not in the catalog has created no order and has answered 404, naming an
\* item's product.
C3_MissingProductAlways404 ==
    \A c \in Running :
        (Done(c) /\ \E k \in 1..Len(c.items) :
                        c.items[k].product_id \in MissingIds) =>
            /\ IsFailure(c.response)
            /\ c.response.code = 404
            /\ \E k \in 1..Len(c.items) :
                   c.response.detail = NotFoundDetail(c.items[k].product_id)

\* C3, amended: a finished create_order call with an item whose product is not
\* in the catalog has created no order; and when the last lookup of a call was
\* answered "not found", every lookup before it was answered "found" and the
\* response is 404 naming that item's product, the first offending one.
C3_MissingProductNoOrderFirst404 ==
    /\ Cardinality(DOMAIN orders_db) = Cardinality(OrdersCreated)
    /\ \A c \in Running :
        Done(c) =>
            LET n == Len(c.log)
            IN  /\ (\E k \in 1..Len(c.items) :
                        c.items[k].product_id \in MissingIds)
                      => IsFailure(c.response)
                /\ (n > 0 /\ c.log[n].kind = "response"
                          /\ c.log[n].status_code = 404)
                      => /\ \A j \in 1..(n - 1) : Found(c.log[j])
                         /\ c.response.code = 404
                         /\ c.response.detail =
                                NotFoundDetail(c.items[n].product_id)

\* two items with different products, neither in the catalog at its call's
\* end: the response names the first
C3_Witness ==
    \E c \in Running :
        /\ Done(c) /\ Len(c.items) = 2
        /\ c.items[1].product_id \notin DOMAIN products_db
        /\ c.items[2].product_id \in MissingIds
        /\ c.items[1].product_id # c.items[2].product_id
        /\ c.response.code = 404
        /\ c.response.detail = NotFoundDetail(c.items[1].product_id)

\* C4: the k-th order persisted gets the identifier str(k), a key the store does
\* not hold yet, and every order already stored stays under its key with its
\* id, under every interleaving of the calls.
C4_SequentialIds ==
    [][LET n == Cardinality(DOMAIN orders_db)
       IN  /\ \A k \in DOMAIN orders_db :
                  k \in DOMAIN orders_db' /\ orders_db'[k].id = orders_db[k].id
           /\ DOMAIN orders_db' # DOMAIN orders_db =>
                  /\ str(n + 1) \notin DOMAIN orders_db
                  /\ DOMAIN orders_db' = DOMAIN orders_db \cup {str(n + 1)}
                  /\ orders_db'[str(n + 1)].id = str(n + 1)
           /\ \A c \in BagToSet(calls') :
                  (Ends(c) /\ IsOrder(c.response))
                    => /\ c.response.body.id = str(n + 1)
                       /\ DOMAIN orders_db' # DOMAIN orders_db]_vars

\* two calls interleaved: order "2" comes from the call whose lookup was
\* answered first, at the price product "1" had before its update
C4_Witness ==
    /\ \E c, d \in Running :
          /\ Done(c) /\ IsOrder(c.response) /\ c.response.body.id = "1"
          /\ Done(d) /\ IsOrder(d.response) /\ d.response.body.id = "2"
          /\ Len(c.log) = 1 /\ c.log[1].json.id = "1"
          /\ Len(d.log) = 1 /\ d.log[1].json.id = "1"
          /\ d.log[1].json.price = InitProducts["1"].price
          /\ c.log[1].json.price # InitProducts["1"].price
    /\ DOMAIN orders_db = {"1", "2"}

\* C5, as stated: create_product assigns an identifier no product of the
\* catalog holds, adds exactly one record and leaves every other record as
\* it is.
C5_CreateAddsFreshProduct ==
    [][\A name \in NameArgs, price \in PriceArgs, category \in CategoryArgs :
          create_product(name, price, category) =>
            /\ NewProductId \notin DOMAIN products_db
            /\ Cardinality(DOMAIN products_db') = Cardinality(DOMAIN products_db) + 1
            /\ \A k \in DOMAIN products_db :
                   k \in DOMAIN products_db' /\ products_db'[k] = products_db[k]]_vars

\* the statuses the specification enumerates
EnumeratedStatuses == {"pending", "confirmed", "shipped", "delivered", "canceled"}

\* C6: a status update on an existing order with a value outside the
\* enumerated set is answered 400 and leaves the Order Store as it is.
C6_InvalidStatusRejected ==
    /\ [](\A order_id \in OrderIdArgs, status \in StatusArgs :
            (order_id \in DOMAIN orders_db /\ status \notin EnumeratedStatuses)
              => update_order_status_response(order_id, status).code = 400)
    /\ [][\A order_id \in OrderIdArgs, status \in StatusArgs :
            (/\ order_id \in DOMAIN orders_db
             /\ status \notin EnumeratedStatuses
             /\ update_order_status(order_id, status))
              => UNCHANGED <<orders_db, order_counter>>]_vars

\* an order whose status was updated before, and is now refused "cancelled"
C6_Witness ==
    /\ "1" \in DOMAIN orders_db
    /\ orders_db["1"].status = "canceled"
    /\ update_order_status_response("1", "cancelled").code = 400
    /\ "cancelled" \in StatusArgs

\* filter strings of the list requests
FilterArgs == {"alice", "bob", "Electronics", "Misc", ""}
AllOrders == {orders_db[k] : k \in DOMAIN orders_db}
AllProducts == {products_db[k] : k \in DOMAIN products_db}

\* C7, as stated: for every filter string, the empty one included, the list
\* requests return exactly the records whose field equals it, and without a
\* filter they return every record.
C7_FilterIsExactMatch ==
    /\ get_orders(None) = AllOrders
    /\ get_products(None) = AllProducts
    /\ \A f \in FilterArgs :
          /\ get_orders(Some(f)) = {o \in AllOrders : o.customer_id = f}
          /\ get_products(Some(f)) = {q \in AllProducts : q.category = f}

\* C8: every stored order stays in the store with its id, customer_id, items,
\* total and created_at through every step of either service; its status
\* changes only in a step of update_order_status on that order.
C8_OrdersImmutableButStatus ==
    [][\A k \in DOMAIN orders_db :
          /\ k \in DOMAIN orders_db'
          /\ orders_db'[k].id = orders_db[k].id
          /\ orders_db'[k].customer_id = orders_db[k].customer_id
          /\ orders_db'[k].items = orders_db[k].items
          /\ orders_db'[k].total = orders_db[k].total
          /\ orders_db'[k].created_at = orders_db[k].created_at
          /\ orders_db'[k].status # orders_db[k].status =>
                \E status \in StatusArgs : update_order_status(k, status)]_vars

\* an order outlived its product, a failed creation, and status updates
C8_Witness ==
    /\ DOMAIN orders_db = {"1"}
    /\ orders_db["1"].status = "delivered"
    /\ orders_db["1"].items # <<>>
    /\ \A i \in 1..Len(orders_db["1"].items) :
          orders_db["1"].items[i].product_id \notin DOMAIN products_db
    /\ \E c \in Running : Done(c) /\ IsFailure(c.response)

\* C9: a finished call looked its items up in order, once each, up to the first
\* lookup that was not "found": none means the order was created; a 404 gives
\* 404, another status gives that status, a transport failure gives 503.
C9_FirstFailedLookupDecides ==
    \A c \in Running :
        Done(c) =>
            LET n == Len(c.log)
                r == c.response
            IN  /\ n <= Len(c.items)
                /\ \A j \in 1..(n - 1) : Found(c.log[j])
                /\ IF n > 0 /\ ~Found(c.log[n])
                   THEN /\ IsFailure(r)
                        /\ c.idx = n - 1
                        /\ r.code = IF c.log[n].kind = "error" THEN 503
                                    ELSE c.log[n].status_code
                   ELSE /\ IsOrder(r)
                        /\ n = Len(c.items)

\* the first lookup of a call found its product and the second timed out:
\* the call answered 503, and its second item was looked up once
C9_Witness ==
    \E c \in Running :
        /\ Done(c) /\ Len(c.items) = 2 /\ Len(c.log) = 2
        /\ Found(c.log[1]) /\ c.log[2].kind = "error"
        /\ c.items[2].product_id \in DOMAIN products_db
        /\ c.response.code = 503

\* C10: the calls that have begun all end; and a call ends either with the order it
\* returns stored in the Order Store, or with a failure and nothing stored:
\* the store holds one order per call that returned an order.
C10_EndsWithExactlyOneOutcome ==
    /\ (\E c \in Running : ~Done(c)) ~> (\A c \in Running : Done(c))
    /\ [](/\ Cardinality(DOMAIN orders_db) = Cardinality(OrdersCreated)
          /\ \A c \in Running :
                Done(c) =>
                    /\ IsOrder(c.response) # IsFailure(c.response)
                    /\ IsOrder(c.response) =>
                          /\ c.response.code = 201
                          /\ c.response.body.id \in DOMAIN orders_db
                          /\ orders_db[c.response.body.id].items = c.items)

\* one call ended with its order stored and the other with a failure
C10_Witness ==
    /\ \A c \in Running : Done(c)
    /\ \E c, d \in Running :
          /\ IsOrder(c.response) /\ Len(c.items) = 1
          /\ IsFailure(d.response) /\ Len(d.items) = 1
    /\ Cardinality(DOMAIN orders_db) = 1

\* C11, as stated: every order in the Order Store has a non-negative total,
\* whatever the integer quantities of its request and the prices of the catalog.
C11_TotalsNonNegative ==
    \A k \in DOMAIN orders_db : orders_db[k].total >= 0

\* C12: every stored order was returned by a create_order call, with the items
\* of that call, and every item of that call was looked up and answered "found"
\* with the record of that item's product; no call whose lookups were not all
\* "found" has an order.
C12_ItemsConfirmedAtCreation ==
    /\ \A k \in DOMAIN orders_db :
          \E c \in Running :
              /\ Done(c) /\ IsOrder(c.response)
              /\ c.response.body.id = k
              /\ orders_db[k].items = c.items
    /\ \A c \in Running :
          (Done(c) /\ IsOrder(c.response)) =>
              /\ Len(c.log) = Len(c.items)
              /\ \A i \in 1..Len(c.items) :
                    /\ Found(c.log[i])
                    /\ c.log[i].json.id = c.items[i].product_id

\* a stored order of a product that was deleted after its lookup, in a
\* catalog that a product was added to
C12_Witness ==
    \E c \in Running :
        /\ Done(c) /\ IsOrder(c.response) /\ Len(c.items) = 1
        /\ c.response.body.id \in DOMAIN orders_db
        /\ c.items[1].product_id \notin DOMAIN products_db
        /\ c.log[1].json = InitProducts[c.items[1].product_id]
        /\ Cardinality(DOMAIN products_db) = 3

\* replies that come from the Product Service itself
Answered(c) ==
    \A i \in 1..Len(c.log) :
        c.log[i].kind = "response" /\ c.log[i].status_code \in {200, 404}

\* C13: from an empty catalog and an empty Order Store, the first product
\* created is {id "1", Widget, 9.99, Misc}; and when the order requests were
\* one for [{product_id "1", quantity 3}] and one for product "999", both
\* answered by the Product Service, the first got order "1" with total 29.97
\* and status "pending", the second got 404, and the store holds that one order.
C13_Example ==
    /\ DOMAIN products_db # {} =>
          /\ "1" \in DOMAIN products_db
          /\ products_db["1"] = [id |-> "1", name |-> "Widget",
                                 price |-> Mills(9, 99), category |-> "Misc"]
    /\ \A c, d \in Running :
          (/\ calls = SetToBag({c, d}) /\ c # d
           /\ Done(c) /\ Done(d) /\ Answered(c) /\ Answered(d)
           /\ c.items = <<[product_id |-> "1", quantity |-> 3]>>
           /\ Len(d.items) = 1 /\ d.items[1].product_id = "999")
            => /\ IsOrder(c.response)
               /\ c.response.code = 201
               /\ c.response.body.id = "1"
               /\ c.response.body.total = Mills(29, 97)
               /\ c.response.body.status = "pending"
               /\ IsFailure(d.response)
               /\ d.response.code = 404
               /\ DOMAIN orders_db = {"1"}
               /\ orders_db["1"] = c.response.body

\* the example has run to its end
C13_Witness ==
    /\ Cardinality(DOMAIN products_db) = 1
    /\ \E c, d \in Running :
          /\ calls = SetToBag({c, d})
          /\ Done(c) /\ c.items = <<[product_id |-> "1", quantity |-> 3]>>
          /\ c.response.code = 201 /\ c.response.body.total = Mills(29, 97)
          /\ Done(d) /\ d.items = <<[product_id |-> "999", quantity |-> 3]>>
          /\ d.response.code = 404
    /\ DOMAIN orders_db = {"1"}

\* lookups answered so far, over the coroutines of S
RECURSIVE Lookups(_, _)
Lookups(b, S) ==
    IF S = {} THEN 0
    ELSE LET c == CHOOSE x \in S : TRUE
         IN  b[c] * Len(c.log) + Lookups(b, S \ {c})

\* C14: a call has looked up the items before position idx, in submission
\* order and once each, all "found"; while it awaits, its one outstanding
\* lookup is of the next item; a call that failed at the item of index k
\* (from 0) has issued exactly k+1 lookups and none after the failed one;
\* and a step answers at most one lookup.
C14_LookupsInSequence ==
    /\ [](\A c \in Running :
            /\ c.idx <= Len(c.items)
            /\ \A i \in 1..c.idx :
                  Found(c.log[i]) /\ c.log[i].json.id = c.items[i].product_id
            /\ c.pc = "await" => (Len(c.log) = c.idx /\ c.idx < Len(c.items))
            /\ c.pc = "create" => (Len(c.log) = c.idx /\ c.idx = Len(c.items))
            /\ (Done(c) /\ IsOrder(c.response)) => Len(c.log) = Len(c.items)
            /\ (Done(c) /\ IsFailure(c.response)) =>
                  (Len(c.log) = c.idx + 1 /\ ~Found(c.log[c.idx + 1])))
    /\ [][calls' # calls =>
            Lookups(calls', BagToSet(calls')) - Lookups(calls, Running) \in {0, 1}]_vars

\* a call of two items failed at the first: one lookup, none for the second
C14_Witness ==
    \E c \in Running :
        /\ Done(c) /\ Len(c.items) = 2 /\ c.idx = 0 /\ Len(c.log) = 1
        /\ c.response.code = 404
        /\ c.items[2].product_id \in DOMAIN products_db

\* C15: on an existing order in any status, an update to any status of the
\* enumerated set is answered 200 and leaves the order with that status.
C15_AnyStatusFromAny ==
    /\ [](\A order_id \in OrderIdArgs \cap DOMAIN orders_db, t \in EnumeratedStatuses :
            /\ orders_db[order_id].status \in EnumeratedStatuses
            /\ update_order_status_response(order_id, t).code = 200
            /\ ENABLED (/\ update_order_status(order_id, t)
                        /\ orders_db'[order_id].status = t))
    /\ [][orders_db' # orders_db =>
            \A order_id \in OrderIdArgs \cap DOMAIN orders_db, t \in EnumeratedStatuses :
                update_order_status(order_id, t) => orders_db'[order_id].status = t]_vars

\* a delivered order, to which every status of the set can be given
C15_Witness ==
    /\ "1" \in DOMAIN orders_db
    /\ orders_db["1"].status = "delivered"
    /\ \A t \in EnumeratedStatuses : update_order_status_response("1", t).code = 200
    /\ EnumeratedStatuses \subseteq StatusArgs

\* C16: a status update on an order id that the store does not hold is
\* answered 404 for every status, in the set or not, and cannot change the
\* Order Store.
C16_AbsentOrder404 ==
    \A order_id \in OrderIdArgs \ DOMAIN orders_db, status \in StatusArgs :
        /\ update_order_status_response(order_id, status).code = 404
        /\ ENABLED update_order_status(order_id, status)
        /\ ~ENABLED (/\ update_order_status(order_id, status)
                     /\ <<orders_db, order_counter>>' # <<orders_db, order_counter>>)

\* with an order stored, a status outside the set is refused 400 on that order
\* and 404 on an order id that is absent
C16_Witness ==
    /\ "1" \in DOMAIN orders_db /\ "7" \notin DOMAIN orders_db
    /\ update_order_status_response("1", "cancelled").code = 400
    /\ update_order_status_response("7", "cancelled").code = 404
    /\ update_order_status_response("7", "shipped").code = 404

\* C17: update and delete of a product id the catalog does not hold are
\* answered 404, as is get, and cannot change the catalog; an update of a
\* product replaces its name, price and category, keeps its id and leaves the
\* other records as they are; a delete removes that record and no other; and an
\* id that is absent stays absent in every step but a create that assigns it.
C17_UpdateDeleteFrame ==
    /\ [](\A product_id \in ProductIdArgs \ DOMAIN products_db :
            /\ get_product(product_id).status_code = 404
            /\ delete_product_response(product_id).code = 404
            /\ ~ENABLED (delete_product(product_id) /\ products_db' # products_db)
            /\ \A name \in NameArgs, price \in PriceArgs, category \in CategoryArgs :
                  /\ update_product_response(product_id, name, price, category).code = 404
                  /\ ~ENABLED (/\ update_product(product_id, name, price, category)
                               /\ products_db' # products_db))
    /\ [][products_db' # products_db =>
            /\ \A product_id \in ProductIdArgs \cap DOMAIN products_db :
                /\ \A name \in NameArgs, price \in PriceArgs, category \in CategoryArgs :
                      update_product(product_id, name, price, category) =>
                          /\ update_product_response(product_id, name, price, category).code = 200
                          /\ DOMAIN products_db' = DOMAIN products_db
                          /\ products_db'[product_id] =
                                 [id |-> product_id, name |-> name, price |-> price,
                                  category |-> category]
                          /\ \A k \in DOMAIN products_db \ {product_id} :
                                 products_db'[k] = products_db[k]
                /\ delete_product(product_id) =>
                      /\ delete_product_response(product_id).code = 200
                      /\ DOMAIN products_db' = DOMAIN products_db \ {product_id}
                      /\ \A k \in DOMAIN products_db' : products_db'[k] = products_db[k]
            /\ \A k \in DOMAIN products_db' \ DOMAIN products_db :
                  /\ k = NewProductId
                  /\ \E name \in NameArgs, price \in PriceArgs, category \in CategoryArgs :
                         create_product(name, price, category)]_vars

\* product "1" was deleted and a product created since: "1" is still absent,
\* and the other seeded records that were not assigned again are as they were
C17_Witness ==
    /\ DOMAIN products_db = {"2", "3", "4"}
    /\ get_product("1").status_code = 404
    /\ products_db["2"] = InitProducts["2"]
    /\ products_db["3"] = InitProducts["3"]

\* C18: the order counter is the number of stored orders plus one, the keys of
\* the store are "1".."n", and each record's id is its key.
C18_CounterAndIds ==
    LET n == Cardinality(DOMAIN orders_db)
    IN  /\ order_counter = n + 1
        /\ DOMAIN orders_db = {str(i) : i \in 1..n}
        /\ \A k \in DOMAIN orders_db : orders_db[k].id = k

\* a creation failed on a transport error and another succeeded: the counter
\* moved once
C18_Witness ==
    /\ order_counter = 2
    /\ DOMAIN orders_db = {"1"}
    /\ \E c \in Running :
          Done(c) /\ IsFailure(c.response) /\ c.response.code = 503

\* C19: every stored order has a status of the enumerated set.
C19_StatusInSet ==
    \A k \in DOMAIN orders_db : orders_db[k].status \in EnumeratedStatuses

\* an order whose status was updated, on which the empty status is refused
C19_Witness ==
    /\ "1" \in DOMAIN orders_db
    /\ orders_db["1"].status = "shipped"
    /\ "" \in StatusArgs
    /\ update_order_status_response("1", "").code = 400

\* C20: a call with an empty item list has no lookup, awaited or answered; it
\* is past its loop, its last step can always be taken, and that step returns
\* and stores an order with total 0, status "pending" and the id
\* str(order_counter).
C20_EmptyOrderSucceeds ==
    /\ [](\A c \in Running :
            c.items = <<>> =>
                /\ c.log = <<>>
                /\ c.pc \in {"create", "done"}
                /\ c.pc = "create" => ENABLED finish(c)
                /\ Done(c) =>
                      /\ IsOrder(c.response)
                      /\ c.response.code = 201
                      /\ c.response.body.total = 0
                      /\ c.response.body.status = "pending"
                      /\ c.response.body.items = <<>>
                      /\ c.response.body.id \in DOMAIN orders_db
                      /\ orders_db[c.response.body.id].total = 0)
    /\ [][\A c \in BagToSet(calls') \ Running :
            (Ends(c) /\ c.items = <<>>) =>
                /\ c.response.body.id = str(order_counter)
                /\ orders_db'[str(order_counter)] = c.response.body]_vars

\* an order without items was created after an order with an item
C20_Witness ==
    \E c, d \in Running :
        /\ Done(c) /\ c.items = <<>> /\ IsOrder(c.response)
        /\ c.response.body.id = "2"
        /\ Done(d) /\ Len(d.items) = 1 /\ IsOrder(d.response)
        /\ orders_db["2"].total = 0

====
